---- MODULE Spec2Model ----
(***************************************************************************)
(* RegistrationMainWindow (src/src/gui/windows/main_window.py): the main   *)
(* window's request handlers, the worker threads they spawn, the shared    *)
(* modal progress dialog, and the dialogs that report results and errors.  *)
(*                                                                         *)
(* All slots of the main window run on the UI thread.  A signal a worker   *)
(* emits from its own thread is delivered to the UI thread's event loop;   *)
(* one action of the model is the emission together with the slots it      *)
(* runs.  A slot that blocks in exec() of a message box is split at that   *)
(* call: the part after it is the action that dismisses the box.           *)
(***************************************************************************)
EXTENDS Integers, Sequences, FiniteSets, TLC

\* ---------------------------------------------------------------- bounds

\* Requests that pass their checks (each creates one worker and one thread).
MaxRequests == 2

\* ------------------------------------------------------------- constants

\* progress_dialog.setRange(0, 100)
ProgressMaximum == 100

\* Values a RegistrationEvaluator reports through signal_update_progress.
ProgressValues == {50, ProgressMaximum}

None == "None"

\* A point cloud reference: None, a Gaussian point cloud, another point cloud.
Clouds == {None, "Gaussian", "Other"}

\* The originals an import passes along with the clouds to show.
OriginalPairs ==
    { <<None, None>>, <<"Gaussian", "Gaussian">>, <<None, "Gaussian">>,
      <<"Gaussian", None>>, <<"Other", "Gaussian">>, <<"Gaussian", "Other">> }

Ids == 1..MaxRequests

\* What the window knows of a worker: the signals it connected.  The workers of
\* do_local_registration, do_ransac_registration and do_fgr_registration are
\* wired alike ("registration"); the multi-scale worker has an error signal too.
RegistrationKinds == {"registration", "multi_scale"}

Kinds == RegistrationKinds \cup {"rasterizer", "evaluator"}

VARIABLES
    pc_originalFirst,         \* self.pc_originalFirst
    pc_originalSecond,        \* self.pc_originalSecond
    local_registration_data,  \* 0 is None, w the data worker w reported
    transformation_matrix,    \* transformation_picker's matrix: 0 initial, w worker w's result
    progress_dialog,          \* [visible, value] of self.progress_dialog
    canceled_conn,            \* workers whose cancel_evaluation is connected to canceled
    progress_conn,            \* workers whose signal_update_progress is connected to setValue
    kind,                     \* worker -> its class, "none" before it is created
    wstate,                   \* worker -> none, idle, working, reported, finishing, deleted
    affinity,                 \* worker -> the thread it was moved to, 0 the UI thread
    conn,                     \* worker -> its connections, a set of [sig, slot]
    tstate,                   \* thread -> none, running, quitting, finished,
                              \*   deleteLater (finished, deletion scheduled), deleted
    starts,                   \* thread -> number of calls of start()
    accepted,                 \* requests that passed their checks
    msg_stack,                \* message boxes open in exec(), the newest last
    err_open,                 \* a modal QErrorMessage is open
    last_local_result,        \* history: the data of the newest result reported with
                              \*   data, 0 before any
    ev                        \* the last handler run: its inputs and what it did

vars == <<pc_originalFirst, pc_originalSecond, local_registration_data,
          transformation_matrix, progress_dialog, canceled_conn,
          progress_conn, kind, wstate, affinity, conn, tstate, starts, accepted,
          msg_stack, err_open, last_local_result, ev>>

\* The window's data, and the history of the results reported.
data_vars == <<pc_originalFirst, pc_originalSecond, local_registration_data,
               transformation_matrix, last_local_result>>

worker_vars == <<kind, wstate, affinity, conn, tstate, starts, accepted,
                 canceled_conn, progress_conn>>

\* ------------------------------------------------------------- dialogs

NoDialog == [kind |-> "none", modal |-> FALSE, title |-> "", msg |-> ""]

MsgImportFailed == "Importing one or both of the point clouds failed. Please check that you entered the correct path!"

MsgMergeImportFailed == "Importing one or both of the point clouds failed. Please check that you entered the correct path and the point clouds selected are Gaussian point clouds!"

MsgNoPreloaded == "There were no preloaded point clouds found! Load a Gaussian point cloud before merging, or check the corresponding inputs option and select the point clouds you wish to merge."

MsgWrongType == "One or both of the point clouds loaded are not of the correct type. Load two Gaussian point clouds for rasterization!"

MsgOrtho == "The current projection type is orthographical, which is invalid for rasterization. Increase the FOV to continue!"

MsgNoClouds == "There are no gaussian point clouds loaded for registration evaluation! Please load two point clouds for registration and evaluation"

MsgErrorList == "The following error(s) occurred. Click Show details for more information!"

\* Mutant: the error dialog is not made modal.
ErrorDialog_modeless(message) ==
    [kind |-> "QErrorMessage", modal |-> FALSE, title |-> "Error", msg |-> message]

\* dialog = QErrorMessage(self); setModal(True); setWindowTitle("Error"); showMessage(message)
ErrorDialog(message) ==
    [kind |-> "QErrorMessage", modal |-> TRUE, title |-> "Error", msg |-> message]

\* The record of one handler run.
\* flag, c1, c2 are the handler's inputs: save_point_clouds, pc_first, pc_second
\* of handle_result; is_checked and the clouds load_plyfile_pc returns (None when
\* nothing is loaded) of merge_point_clouds; is_ortho of rasterize_gaussians.
Event(op, w, flag, c1, c2, log, cancelled, dialog) ==
    [op |-> op, w |-> w, flag |-> flag, c1 |-> c1, c2 |-> c2, log |-> log,
     cancelled |-> cancelled, dialog |-> dialog, data |-> 0]

\* `not pc`
Missing(pc) == pc = None

\* is_point_cloud_gaussian(pc)
is_point_cloud_gaussian(pc) == pc = "Gaussian"

\* The main window takes user input: no modal dialog is open.
UIFree == ~progress_dialog.visible /\ msg_stack = <<>> /\ ~err_open

\* QProgressDialog.reset() with autoClose at its default: hides the dialog.
ProgressReset(pd) == [pd EXCEPT !.visible = FALSE, !.value = -1]

\* QProgressDialog.exec(): shows the dialog modally.
ProgressExec(pd) == [pd EXCEPT !.visible = TRUE]

\* QProgressDialog.setValue(v) with autoReset at its default.
ProgressSetValue(pd, v) ==
    IF v = pd.value \/ (pd.value = -1 /\ v = ProgressMaximum) THEN pd
    ELSE IF v = ProgressMaximum THEN ProgressReset(pd)
    ELSE [pd EXCEPT !.value = v]

\* Mutant: the cancel action is tied to every worker that exists.
CanceledSlots_every_worker ==
    {w \in Ids : wstate[w] \in {"working", "reported", "finishing"}}

\* The slots canceled() runs besides the dialog's own cancel(): cancel_evaluation
\* of every worker connected to it.
CanceledSlots == canceled_conn


\* ------------------------------------------------------------ workers

\* A worker and a thread not created yet: the objects the next request creates.
NewWorker == CHOOSE w \in Ids : kind[w] = "none" /\ \A v \in Ids : v < w => kind[v] # "none"

\* Mutant: a thread that is still running is used again.
NewThread_reused ==
    IF \E t \in Ids : tstate[t] = "running"
    THEN CHOOSE t \in Ids : tstate[t] = "running"
    ELSE CHOOSE t \in Ids : tstate[t] = "none" /\ \A u \in Ids : u < t => tstate[u] # "none"

\* thread = QThread(self)
NewThread == CHOOSE t \in Ids : tstate[t] = "none" /\ \A u \in Ids : u < t => tstate[u] # "none"

Conn(sig, slot) == [sig |-> sig, slot |-> slot]

\* The signal a worker of class k reports its result with, and the slot of the
\* thread's started signal.
DoneSignal(k) ==
    CASE k \in RegistrationKinds -> "signal_registration_done"
      [] k = "rasterizer" -> "signal_rasterization_done"
      [] k = "evaluator" -> "signal_evaluation_done"

EntrySlot(k) ==
    CASE k \in RegistrationKinds -> "do_registration"
      [] k = "rasterizer" -> "do_rasterization"
      [] k = "evaluator" -> "do_evaluation"

\* Mutant: thread.finished is not connected to thread.deleteLater.
LifecycleWiring_leak(k) ==
    { Conn("thread.started", EntrySlot(k)),
      Conn("signal_finished", "thread.quit"),
      Conn("signal_finished", "deleteLater") }

\* thread.started.connect(...); worker.signal_finished.connect(thread.quit);
\* worker.signal_finished.connect(worker.deleteLater);
\* thread.finished.connect(thread.deleteLater)
LifecycleWiring(k) ==
    { Conn("thread.started", EntrySlot(k)),
      Conn("signal_finished", "thread.quit"),
      Conn("signal_finished", "deleteLater"),
      Conn("thread.finished", "thread.deleteLater") }

\* RegistrationEvaluator(..., self.local_registration_data, ...)
EvaluatorData == local_registration_data

\* The lines from "Create thread" to progress_dialog.exec(): the new worker w is
\* moved to the new thread t, the signals are connected, the thread is started
\* and the progress dialog is shown.  evaluate is TRUE for evaluate_registration,
\* which also connects the dialog to the worker.
Spawn(op, k, wiring, evaluate, log) ==
    LET w == NewWorker
        t == NewThread
    IN  /\ kind' = [kind EXCEPT ![w] = k]
        /\ affinity' = [affinity EXCEPT ![w] = t]
        /\ conn' = [conn EXCEPT ![w] = wiring]
        /\ tstate' = [tstate EXCEPT ![t] = "running"]
        /\ starts' = [starts EXCEPT ![t] = @ + 1]
        /\ wstate' = [wstate EXCEPT ![w] =
               IF Conn("thread.started", EntrySlot(k)) \in wiring THEN "working" ELSE "idle"]
        /\ accepted' = accepted + 1
        /\ canceled_conn' = IF evaluate THEN canceled_conn \cup {w} ELSE canceled_conn
        /\ progress_conn' = IF evaluate THEN progress_conn \cup {w} ELSE progress_conn
        /\ progress_dialog' = ProgressExec(progress_dialog)
        /\ ev' = [Event(op, w, FALSE, None, None, log, {}, NoDialog)
                    EXCEPT !.data = IF evaluate THEN EvaluatorData ELSE 0]
        /\ UNCHANGED <<data_vars, msg_stack, err_open>>

RegistrationLog(class) ==
    <<class, "QThread", "moveToThread", "connect", "thread.start",
      "setLabelText", "progress_dialog.exec">>

\* A request handler runs when the user triggers it: the window takes input.
CanAccept == UIFree /\ accepted < MaxRequests

do_local_registration ==
    /\ CanAccept
    /\ Spawn("do_local_registration", "registration",
             LifecycleWiring("registration")
               \cup {Conn("signal_registration_done", "handle_registration_result")},
             FALSE, RegistrationLog("LocalRegistrator"))

do_ransac_registration ==
    /\ CanAccept
    /\ Spawn("do_ransac_registration", "registration",
             LifecycleWiring("registration")
               \cup {Conn("signal_registration_done", "handle_registration_result")},
             FALSE, RegistrationLog("RANSACRegistrator"))

do_fgr_registration ==
    /\ CanAccept
    /\ Spawn("do_fgr_registration", "registration",
             LifecycleWiring("registration")
               \cup {Conn("signal_registration_done", "handle_registration_result")},
             FALSE, RegistrationLog("FGRRegistrator"))

do_multi_scale_registration ==
    /\ CanAccept
    /\ Spawn("do_multi_scale_registration", "multi_scale",
             LifecycleWiring("multi_scale")
               \cup {Conn("signal_registration_done", "handle_registration_result"),
                     Conn("signal_error_occurred", "create_error_list_dialog")},
             FALSE, RegistrationLog("MultiScaleRegistrator"))

\* A request that is rejected: one modal error dialog and nothing else.
Reject(op, flag, c1, c2, message) ==
    /\ err_open' = TRUE
    /\ ev' = Event(op, 0, flag, c1, c2, <<"QErrorMessage.showMessage">>, {},
                   ErrorDialog(message))
    /\ UNCHANGED <<data_vars, worker_vars, progress_dialog, msg_stack>>

\* Mutant: the projection is checked before the point clouds' type.
RasterizationError_projection_first(is_ortho) ==
    IF is_ortho THEN MsgOrtho
    ELSE IF ~is_point_cloud_gaussian(pc_originalFirst)
            \/ ~is_point_cloud_gaussian(pc_originalSecond)
    THEN MsgWrongType
    ELSE ""

\* The checks of rasterize_gaussians in their order: the message of the first
\* that fails, "" when both pass.
RasterizationError(is_ortho) ==
    IF ~is_point_cloud_gaussian(pc_originalFirst)
            \/ ~is_point_cloud_gaussian(pc_originalSecond)
    THEN MsgWrongType
    ELSE IF is_ortho THEN MsgOrtho
    ELSE ""

rasterize_gaussians(is_ortho) ==
    /\ UIFree
    /\ IF RasterizationError(is_ortho) # ""
       THEN Reject("rasterize_gaussians", is_ortho, None, None,
                   RasterizationError(is_ortho))
       ELSE /\ accepted < MaxRequests
            /\ Spawn("rasterize_gaussians", "rasterizer",
                     LifecycleWiring("rasterizer")
                       \cup {Conn("signal_rasterization_done", "create_raster_window")},
                     FALSE,
                     <<"RasterizerWorker", "QThread", "moveToThread", "connect",
                       "thread.start", "setLabelText", "progress_dialog.exec">>)

\* Mutant: only the first original is checked.
EvaluationBlocked_first_only == Missing(pc_originalFirst)

\* if not pc1 or not pc2
EvaluationBlocked == Missing(pc_originalFirst) \/ Missing(pc_originalSecond)

evaluate_registration ==
    /\ UIFree
    /\ IF EvaluationBlocked
       THEN Reject("evaluate_registration", FALSE, None, None, MsgNoClouds)
       ELSE /\ accepted < MaxRequests
            /\ Spawn("evaluate_registration", "evaluator",
                     LifecycleWiring("evaluator")
                       \cup {Conn("signal_evaluation_done", "handle_evaluation_result")},
                     TRUE,
                     <<"RegistrationEvaluator", "QThread", "moveToThread", "connect",
                       "setLabelText", "setRange", "canceled.connect",
                       "signal_update_progress.connect", "thread.start",
                       "progress_dialog.exec">>)


\* ------------------------------------------------ import and merging

\* check_if_none_and_throw_error's condition: TRUE when it shows the dialog.
check_if_none_and_throw_error(pc_first, pc_second) ==
    Missing(pc_first) \/ Missing(pc_second)

\* Mutant: the originals are stored before the clouds are checked.
handle_result_stores_first(pc_first, pc_second, save_point_clouds, original1, original2) ==
    /\ UIFree
    /\ pc_originalFirst' = original1
    /\ pc_originalSecond' = original2
    /\ IF check_if_none_and_throw_error(pc_first, pc_second)
       THEN /\ err_open' = TRUE
            /\ ev' = Event("handle_result", 0, save_point_clouds, pc_first, pc_second,
                           <<"QErrorMessage.showMessage">>, {},
                           ErrorDialog(MsgImportFailed))
       ELSE /\ ev' = Event("handle_result", 0, save_point_clouds, pc_first, pc_second,
                           (IF save_point_clouds THEN <<"PointCloudSaver.run">> ELSE <<>>)
                             \o <<"load_point_clouds">>,
                           {}, NoDialog)
            /\ UNCHANGED err_open
    /\ UNCHANGED <<local_registration_data, transformation_matrix, worker_vars,
                   progress_dialog, msg_stack, last_local_result>>

\* The slot of input_tab.result_signal and cache_tab.result_signal.
handle_result(pc_first, pc_second, save_point_clouds, original1, original2) ==
    /\ UIFree
    /\ IF check_if_none_and_throw_error(pc_first, pc_second)
       THEN Reject("handle_result", save_point_clouds, pc_first, pc_second,
                   MsgImportFailed)
       ELSE /\ pc_originalFirst' = original1
            /\ pc_originalSecond' = original2
            /\ ev' = Event("handle_result", 0, save_point_clouds, pc_first, pc_second,
                           (IF save_point_clouds THEN <<"PointCloudSaver.run">> ELSE <<>>)
                             \o <<"load_point_clouds">>,
                           {}, NoDialog)
            /\ UNCHANGED <<local_registration_data, transformation_matrix,
                           worker_vars, progress_dialog, msg_stack, err_open,
                           last_local_result>>

\* Mutant: the first cloud is always the preloaded original.
MergeFirst_preloaded(is_checked, loaded1) == pc_originalFirst

\* The clouds a merge request would merge: load_plyfile_pc of the two paths
\* (loaded1, loaded2) when "corresponding inputs" is checked, else the originals.
MergeFirst(is_checked, loaded1) == IF is_checked THEN loaded1 ELSE pc_originalFirst

MergeSecond(is_checked, loaded2) == IF is_checked THEN loaded2 ELSE pc_originalSecond

merge_point_clouds(is_checked, loaded1, loaded2) ==
    LET pc_first == MergeFirst(is_checked, loaded1)
        pc_second == MergeSecond(is_checked, loaded2)
    IN  /\ UIFree
        /\ IF is_checked /\ check_if_none_and_throw_error(pc_first, pc_second)
           THEN Reject("merge_point_clouds", is_checked, loaded1, loaded2,
                       MsgMergeImportFailed)
           ELSE IF check_if_none_and_throw_error(pc_first, pc_second)
           THEN Reject("merge_point_clouds", is_checked, loaded1, loaded2,
                       MsgNoPreloaded)
           ELSE /\ ev' = Event("merge_point_clouds", 0, is_checked, loaded1, loaded2,
                               <<"save_merged_point_clouds">>, {}, NoDialog)
                /\ UNCHANGED <<data_vars, worker_vars, progress_dialog, msg_stack,
                               err_open>>

\* ------------------------------------------------- the workers' signals

Frame(box, w, trans, data) == [box |-> box, w |-> w, trans |-> trans, data |-> data]

Connected(w, sig, slot) == Conn(sig, slot) \in conn[w]

\* The data a registration worker may report with its result: its own (w), or
\* None (0) when the registration is global.
WorkerData(w) == {0, w}

\* Mutant: close() leaves the progress dialog open.
ProgressClose_stays_open(pd) == pd

\* progress_dialog.close(): the close event emits canceled(), whose slots are the
\* connected cancel_evaluation slots and the dialog's cancel(), which resets it.
ProgressClose(pd) == ProgressReset(pd)

\* handle_registration_result up to message_dialog.exec()
handle_registration_result(w, data) ==
    /\ progress_dialog' = ProgressClose(progress_dialog)
    /\ msg_stack' = Append(msg_stack, Frame("registration", w, w, data))
    /\ ev' = Event("handle_registration_result", w, FALSE, None, None,
                   <<"progress_dialog.close", "message_dialog.exec">>, CanceledSlots,
                   [kind |-> "QMessageBox", modal |-> TRUE,
                    title |-> "Successful registration", msg |-> "results"])
    /\ last_local_result' = IF data # 0 THEN data ELSE last_local_result
    /\ UNCHANGED <<pc_originalFirst, pc_originalSecond, local_registration_data,
                   transformation_matrix, err_open>>

\* create_raster_window
create_raster_window(w) ==
    /\ progress_dialog' = ProgressClose(progress_dialog)
    /\ ev' = Event("create_raster_window", w, FALSE, None, None,
                   <<"progress_dialog.close", "raster_window.show">>, CanceledSlots,
                   NoDialog)
    /\ UNCHANGED <<data_vars, msg_stack, err_open>>

\* handle_evaluation_result up to message_dialog.exec()
handle_evaluation_result(w) ==
    /\ progress_dialog' = ProgressClose(progress_dialog)
    /\ msg_stack' = Append(msg_stack, Frame("evaluation", w, 0, 0))
    /\ ev' = Event("handle_evaluation_result", w, FALSE, None, None,
                   <<"progress_dialog.close", "message_dialog.exec">>, CanceledSlots,
                   [kind |-> "QMessageBox", modal |-> TRUE,
                    title |-> "Evaluation finished", msg |-> "log_object"])
    /\ UNCHANGED <<data_vars, err_open>>

\* create_error_list_dialog up to message_dialog.exec()
create_error_list_dialog(w) ==
    /\ progress_dialog' = ProgressClose(progress_dialog)
    /\ msg_stack' = Append(msg_stack, Frame("error_list", w, 0, 0))
    /\ ev' = Event("create_error_list_dialog", w, FALSE, None, None,
                   <<"progress_dialog.close", "message_dialog.exec">>, CanceledSlots,
                   [kind |-> "QMessageBox", modal |-> TRUE,
                    title |-> "Error occured", msg |-> MsgErrorList])
    /\ UNCHANGED <<data_vars, err_open>>

\* A signal with no slot connected: nothing runs.
NoSlot(op, w) ==
    /\ ev' = Event(op, w, FALSE, None, None, <<>>, {}, NoDialog)
    /\ UNCHANGED <<data_vars, progress_dialog, msg_stack, err_open>>

Reported(w) ==
    /\ wstate' = [wstate EXCEPT ![w] = "reported"]
    /\ UNCHANGED <<kind, affinity, conn, tstate, starts, accepted, canceled_conn,
                   progress_conn>>

\* The worker emits signal_registration_done.
RegistrationDone(w, data) ==
    /\ wstate[w] = "working"
    /\ kind[w] \in RegistrationKinds
    /\ data \in WorkerData(w)
    /\ Reported(w)
    /\ IF Connected(w, "signal_registration_done", "handle_registration_result")
       THEN handle_registration_result(w, data)
       ELSE NoSlot("signal_registration_done", w)

\* The worker emits signal_rasterization_done.
RasterizationDone(w) ==
    /\ wstate[w] = "working"
    /\ kind[w] = "rasterizer"
    /\ Reported(w)
    /\ IF Connected(w, "signal_rasterization_done", "create_raster_window")
       THEN create_raster_window(w)
       ELSE NoSlot("signal_rasterization_done", w)

\* The worker emits signal_evaluation_done.
EvaluationDone(w) ==
    /\ wstate[w] = "working"
    /\ kind[w] = "evaluator"
    /\ Reported(w)
    /\ IF Connected(w, "signal_evaluation_done", "handle_evaluation_result")
       THEN handle_evaluation_result(w)
       ELSE NoSlot("signal_evaluation_done", w)

\* The multi-scale worker emits signal_error_occurred.
ErrorOccurred(w) ==
    /\ wstate[w] = "working"
    /\ kind[w] = "multi_scale"
    /\ Reported(w)
    /\ IF Connected(w, "signal_error_occurred", "create_error_list_dialog")
       THEN create_error_list_dialog(w)
       ELSE NoSlot("signal_error_occurred", w)

\* The evaluator emits signal_update_progress(v): progress_dialog.setValue(v).
UpdateProgress(w, v) ==
    /\ wstate[w] = "working"
    /\ w \in progress_conn
    /\ progress_dialog' = ProgressSetValue(progress_dialog, v)
    /\ ev' = Event("setValue", w, FALSE, None, None, <<"progress_dialog.setValue">>,
                   {}, NoDialog)
    /\ UNCHANGED <<data_vars, worker_vars, msg_stack, err_open>>

\* The worker emits signal_finished: thread.quit and worker.deleteLater.
Finished(w) ==
    /\ wstate[w] \in {"working", "reported"}
    /\ wstate' = [wstate EXCEPT ![w] =
           IF Connected(w, "signal_finished", "deleteLater") THEN "finishing" ELSE "ended"]
    /\ tstate' = [tstate EXCEPT ![affinity[w]] =
           IF Connected(w, "signal_finished", "thread.quit") THEN "quitting" ELSE @]
    /\ ev' = Event("signal_finished", w, FALSE, None, None, <<>>, {}, NoDialog)
    /\ UNCHANGED <<data_vars, kind, affinity, conn, starts, accepted, canceled_conn,
                   progress_conn, progress_dialog, msg_stack, err_open>>

WorkerOf(t) == CHOOSE w \in Ids : affinity[w] = t

\* The thread's event loop has quit: the worker's pending deletion is carried
\* out, its connections go with it, and thread.finished runs thread.deleteLater.
ThreadFinished(t) ==
    /\ tstate[t] = "quitting"
    /\ LET deleted == wstate[WorkerOf(t)] = "finishing"
       IN  /\ wstate' = [wstate EXCEPT ![WorkerOf(t)] = IF deleted THEN "deleted" ELSE @]
           /\ canceled_conn' = IF deleted THEN canceled_conn \ {WorkerOf(t)} ELSE canceled_conn
           /\ progress_conn' = IF deleted THEN progress_conn \ {WorkerOf(t)} ELSE progress_conn
    /\ tstate' = [tstate EXCEPT ![t] =
           IF Connected(WorkerOf(t), "thread.finished", "thread.deleteLater")
           THEN "deleteLater" ELSE "finished"]
    /\ ev' = Event("thread.finished", WorkerOf(t), FALSE, None, None, <<>>, {}, NoDialog)
    /\ UNCHANGED <<data_vars, kind, affinity, conn, starts, accepted,
                   progress_dialog, msg_stack, err_open>>

\* The deferred deletion of a thread.
ThreadDeleted(t) ==
    /\ tstate[t] = "deleteLater"
    /\ tstate' = [tstate EXCEPT ![t] = "deleted"]
    /\ ev' = Event("thread.deleted", WorkerOf(t), FALSE, None, None, <<>>, {}, NoDialog)
    /\ UNCHANGED <<data_vars, kind, wstate, affinity, conn, starts, accepted,
                   canceled_conn, progress_conn, progress_dialog, msg_stack, err_open>>

\* ------------------------------------------------------ the user's part

\* The progress dialog's cancel action: canceled() runs the connected
\* cancel_evaluation slots and the dialog's own cancel(), which hides it.
Cancel ==
    /\ progress_dialog.visible
    /\ msg_stack = <<>>
    /\ progress_dialog' = ProgressReset(progress_dialog)
    /\ ev' = Event("canceled", 0, FALSE, None, None, <<"progress_dialog.cancel">>,
                   CanceledSlots, NoDialog)
    /\ UNCHANGED <<data_vars, worker_vars, msg_stack, err_open>>

\* Mutant: the data is stored without the test for None.
StoredData_unconditional(data) == data

\* if data is not None: self.local_registration_data = data
StoredData(data) == IF data # 0 THEN data ELSE local_registration_data

\* The user dismisses the newest message box; its exec() returns and the slot
\* that opened it runs to its end.
DismissMessage ==
    /\ msg_stack # <<>>
    /\ LET f == msg_stack[Len(msg_stack)]
       IN  /\ msg_stack' = SubSeq(msg_stack, 1, Len(msg_stack) - 1)
           /\ IF f.box = "registration"
              THEN /\ local_registration_data' = StoredData(f.data)
                   /\ transformation_matrix' = f.trans
                   /\ ev' = Event("handle_registration_result.end", f.w, f.data # 0,
                                  None, None,
                                  (IF f.data # 0 THEN <<"local_registration_data">>
                                   ELSE <<>>) \o <<"set_transformation">>,
                                  {}, NoDialog)
              ELSE /\ ev' = Event("message_dialog.end", f.w, FALSE, None, None, <<>>,
                                  {}, NoDialog)
                   /\ UNCHANGED <<local_registration_data, transformation_matrix>>
    /\ UNCHANGED <<pc_originalFirst, pc_originalSecond, worker_vars,
                   progress_dialog, err_open, last_local_result>>

\* The user closes the error dialog.
DismissError ==
    /\ err_open
    /\ msg_stack = <<>>
    /\ err_open' = FALSE
    /\ ev' = Event("QErrorMessage.end", 0, FALSE, None, None, <<>>, {}, NoDialog)
    /\ UNCHANGED <<data_vars, worker_vars, progress_dialog, msg_stack>>

\* ------------------------------------------------------- specification

\* __init__: no point clouds, no registration data, the progress dialog closed.
Init ==
    /\ pc_originalFirst = None
    /\ pc_originalSecond = None
    /\ local_registration_data = 0
    /\ transformation_matrix = 0
    /\ progress_dialog = [visible |-> FALSE, value |-> -1]
    /\ canceled_conn = {}
    /\ progress_conn = {}
    /\ kind = [w \in Ids |-> "none"]
    /\ wstate = [w \in Ids |-> "none"]
    /\ affinity = [w \in Ids |-> 0]
    /\ conn = [w \in Ids |-> {}]
    /\ tstate = [t \in Ids |-> "none"]
    /\ starts = [t \in Ids |-> 0]
    /\ accepted = 0
    /\ msg_stack = <<>>
    /\ err_open = FALSE
    /\ last_local_result = 0
    /\ ev = Event("__init__", 0, FALSE, None, None, <<>>, {}, NoDialog)

\* The user asks for a registration, a rasterization or an evaluation.
Requests ==
    \/ do_local_registration
    \/ do_ransac_registration
    \/ do_fgr_registration
    \/ do_multi_scale_registration
    \/ \E is_ortho \in BOOLEAN : rasterize_gaussians(is_ortho)
    \/ evaluate_registration

\* The workers' signals and the threads' ends.
Signals ==
    \/ \E w \in Ids, data \in 0..MaxRequests : RegistrationDone(w, data)
    \/ \E w \in Ids : RasterizationDone(w)
    \/ \E w \in Ids : EvaluationDone(w)
    \/ \E w \in Ids : ErrorOccurred(w)
    \/ \E w \in Ids, v \in ProgressValues : UpdateProgress(w, v)
    \/ \E w \in Ids : Finished(w)
    \/ \E t \in Ids : ThreadFinished(t)
    \/ \E t \in Ids : ThreadDeleted(t)

\* The user's part in the dialogs.
Dialogs ==
    \/ Cancel
    \/ DismissMessage
    \/ DismissError

\* The input and cache tabs report an import; the merge tab asks for a merge.
Imports ==
    \/ \E pc_first, pc_second \in {None, "Other"}, save \in BOOLEAN, o \in OriginalPairs :
          handle_result(pc_first, pc_second, save, o[1], o[2])
    \/ \E is_checked \in BOOLEAN, l1, l2 \in {None, "Gaussian"} :
          /\ (~is_checked => l1 = None /\ l2 = None)
          /\ merge_point_clouds(is_checked, l1, l2)

Next == Requests \/ Signals \/ Dialogs \/ Imports

\* The window with every handler and every input.
Spec == Init /\ [][Next]_vars

\* A small alphabet of imports and merges: two Gaussian point clouds imported
\* and shown without saving, an import whose first cloud is missing, a merge of
\* the originals, a merge of two paths of which the first does not load.
SmallImports ==
    \/ handle_result("Other", "Other", FALSE, "Gaussian", "Gaussian")
    \/ handle_result(None, "Other", FALSE, None, None)
    \/ merge_point_clouds(FALSE, None, None)
    \/ merge_point_clouds(TRUE, None, "Gaussian")

RequestNext == Requests \/ Signals \/ Dialogs \/ SmallImports

\* Every handler and every worker, with the small alphabet of imports.
RequestSpec == Init /\ [][RequestNext]_vars

ErrorNext ==
    \/ Imports
    \/ \E is_ortho \in BOOLEAN : rasterize_gaussians(is_ortho)
    \/ evaluate_registration
    \/ do_multi_scale_registration
    \/ \E w \in Ids : ErrorOccurred(w)
    \/ Dialogs

\* The handlers that report errors, with every input: the imports and merges, the
\* two requests that check the imported originals, and the multi-scale
\* registration with its worker's error signal.
ErrorSpec == Init /\ [][ErrorNext]_vars

ThreadNext ==
    \/ Requests
    \/ \E w \in Ids : Finished(w)
    \/ \E t \in Ids : ThreadFinished(t)
    \/ \E t \in Ids : ThreadDeleted(t)
    \/ Cancel
    \/ DismissError
    \/ handle_result("Other", "Other", FALSE, "Gaussian", "Gaussian")

\* The threads' lives: every request, the workers' signal_finished and the
\* threads' ends.  The event loops run: a thread told to quit finishes, and a
\* deferred deletion is carried out.
FairSpec ==
    /\ Init /\ [][ThreadNext]_vars
    /\ \A t \in Ids : WF_vars(ThreadFinished(t)) /\ WF_vars(ThreadDeleted(t))

\* ------------------------------------------------------------ claims

RequestOps ==
    {"do_local_registration", "do_ransac_registration", "do_fgr_registration",
     "do_multi_scale_registration", "rasterize_gaussians", "evaluate_registration"}

DoneHandlers ==
    {"handle_registration_result", "create_raster_window", "handle_evaluation_result"}

\* The last handler run accepted a request.
Accepted == ev.op \in RequestOps /\ ev.w # 0

CreatedWorkers == {w \in Ids : kind[w] # "none"}

CreatedThreads == {t \in Ids : tstate[t] # "none"}

\* The places of x in a log.
Places(log, x) == {i \in 1..Len(log) : log[i] = x}

\* A thread has not finished: it runs, or was told to quit and has not yet.
Alive(t) == tstate[t] \in {"running", "quitting"}

\* C1: every accepted request creates one worker and one thread, moves the
\* worker to the thread before it starts the thread, and starts the thread once;
\* the threads started are as many as the requests accepted, and no two workers
\* are on one thread.
C1_OneWorkerOneThreadPerRequest ==
    /\ Cardinality(CreatedWorkers) = accepted
    /\ Cardinality(CreatedThreads) = accepted
    /\ \A t \in Ids : starts[t] = IF t \in CreatedThreads THEN 1 ELSE 0
    /\ \A w \in CreatedWorkers : affinity[w] \in CreatedThreads
    /\ \A w1, w2 \in CreatedWorkers : w1 # w2 => affinity[w1] # affinity[w2]
    /\ Accepted =>
          /\ Cardinality(Places(ev.log, "QThread")) = 1
          /\ Cardinality(Places(ev.log, "moveToThread")) = 1
          /\ Cardinality(Places(ev.log, "thread.start")) = 1
          /\ \A i \in Places(ev.log, "moveToThread"), j \in Places(ev.log, "thread.start") :
                i < j
          /\ kind[ev.w] # "none" /\ starts[affinity[ev.w]] = 1

C1_Witness ==
    /\ accepted = 2
    /\ ev.op = "evaluate_registration"
    /\ ev.w = 2
    /\ kind[1] = "registration"
    /\ Alive(1) /\ Alive(2)

\* C2: an accepted request opens the progress dialog, the dialog is
\* closed by nothing but the handler of the done signal of that request's worker,
\* and that handler closes it.
C2_ClosedOnlyByOwnDone ==
    [][ /\ (ev'.op \in RequestOps /\ ev'.w # 0) => progress_dialog'.visible
        /\ (progress_dialog.visible /\ ~progress_dialog'.visible)
              => (ev'.op \in DoneHandlers /\ ev'.w = accepted)
        /\ ev'.op \in DoneHandlers => ~progress_dialog'.visible ]_vars

\* C3: the cancel action runs cancel_evaluation on the worker of the evaluation
\* request whose dialog it cancels, on no worker that is not an evaluator, and so
\* on no worker of a registration or rasterization request.
C3_CancelReachesOnlyEvaluators ==
    ev.op = "canceled" =>
        /\ \A w \in ev.cancelled : kind[w] = "evaluator"
        /\ accepted > 0 =>
              /\ (kind[accepted] = "evaluator" /\ wstate[accepted] # "deleted")
                    => accepted \in ev.cancelled
              /\ kind[accepted] # "evaluator" => accepted \notin ev.cancelled

C3_Witness ==
    /\ ev.op = "canceled"
    /\ kind[accepted] = "evaluator"
    /\ wstate[accepted] = "working"
    /\ accepted \in ev.cancelled

\* C4: an import result whose first or second cloud is missing shows an error
\* dialog and changes nothing else: the originals stay, no saver runs, the
\* viewer loads nothing.
C4_FailedImportChangesNothing ==
    [][ (ev'.op = "handle_result" /\ (Missing(ev'.c1) \/ Missing(ev'.c2))) =>
          /\ ev'.dialog.kind = "QErrorMessage"
          /\ err_open'
          /\ ev'.log = <<"QErrorMessage.showMessage">>
          /\ pc_originalFirst' = pc_originalFirst
          /\ pc_originalSecond' = pc_originalSecond
          /\ UNCHANGED <<local_registration_data, transformation_matrix, worker_vars,
                         progress_dialog, msg_stack>> ]_vars

C4_Witness ==
    /\ ev.op = "handle_result"
    /\ Missing(ev.c2) /\ ~Missing(ev.c1)
    /\ ev.flag
    /\ err_open
    /\ pc_originalFirst = "Gaussian" /\ pc_originalSecond = "Other"

\* The clouds a merge request is to merge, by the claim: the loaded ones with
\* the option checked, the originals without.
C5_First == IF ev.flag THEN ev.c1 ELSE pc_originalFirst

C5_Second == IF ev.flag THEN ev.c2 ELSE pc_originalSecond

\* C5: a merge request saves the merged clouds when both clouds it is to merge
\* are present, and only then; when one is missing it shows one error dialog and
\* saves nothing.
C5_MergeOnlyWhenBothPresent ==
    ev.op = "merge_point_clouds" =>
        IF Missing(C5_First) \/ Missing(C5_Second)
        THEN /\ ev.log = <<"QErrorMessage.showMessage">>
             /\ ev.dialog.kind = "QErrorMessage"
             /\ err_open
        ELSE /\ ev.log = <<"save_merged_point_clouds">>
             /\ ev.dialog = NoDialog

C5_Witness ==
    /\ ev.op = "merge_point_clouds"
    /\ ev.flag
    /\ Missing(ev.c1) /\ ~Missing(ev.c2)
    /\ ~Missing(pc_originalFirst) /\ ~Missing(pc_originalSecond)
    /\ ev.log = <<"QErrorMessage.showMessage">>

\* C6: an evaluation request made while an original is missing shows an error
\* dialog and does nothing else: no worker, no thread, no connection to the
\* progress dialog, and the progress dialog stays closed.
C6_EvaluationRejectedWithoutClouds ==
    [][ (ev'.op = "evaluate_registration"
           /\ (Missing(pc_originalFirst) \/ Missing(pc_originalSecond))) =>
          /\ ev'.dialog.kind = "QErrorMessage"
          /\ err_open'
          /\ ev'.log = <<"QErrorMessage.showMessage">>
          /\ ~progress_dialog'.visible
          /\ UNCHANGED <<data_vars, worker_vars, progress_dialog, msg_stack>> ]_vars

C6_Witness ==
    /\ ev.op = "evaluate_registration"
    /\ ~Missing(pc_originalFirst) /\ Missing(pc_originalSecond)
    /\ err_open
    /\ accepted = 1

\* C7: a rasterization request is rejected with one error dialog, and creates
\* no worker or thread and leaves the progress dialog closed, when an original
\* is not a Gaussian point cloud or the projection is orthographic; the type is
\* checked first, so a request failing both reports the type error.
C7_RasterizationRejected ==
    [][ (ev'.op = "rasterize_gaussians"
           /\ (\/ ~is_point_cloud_gaussian(pc_originalFirst)
               \/ ~is_point_cloud_gaussian(pc_originalSecond)
               \/ ev'.flag)) =>
          /\ ev'.dialog.kind = "QErrorMessage"
          /\ ev'.dialog.msg =
                IF is_point_cloud_gaussian(pc_originalFirst)
                      /\ is_point_cloud_gaussian(pc_originalSecond)
                THEN MsgOrtho ELSE MsgWrongType
          /\ err_open'
          /\ ev'.log = <<"QErrorMessage.showMessage">>
          /\ ~progress_dialog'.visible
          /\ UNCHANGED <<data_vars, worker_vars, progress_dialog, msg_stack>> ]_vars

C7_Witness ==
    /\ ev.op = "rasterize_gaussians"
    /\ ev.flag
    /\ pc_originalFirst = "Gaussian" /\ pc_originalSecond = "Other"
    /\ ev.dialog.msg = MsgWrongType

\* The thread of worker w is deleted.
C8_Released(w) == affinity[w] # 0 /\ tstate[affinity[w]] = "deleted"

\* C8: a worker's signal_finished tells its thread to quit and schedules the
\* worker's deletion; the thread's finished schedules the thread's deletion; a
\* thread is deleted only after it has finished; and every thread whose worker
\* has emitted signal_finished is deleted in the end.
C8_ThreadsReleased ==
    /\ [](ev.op = "signal_finished" =>
            tstate[affinity[ev.w]] = "quitting" /\ wstate[ev.w] = "finishing")
    /\ [](ev.op = "thread.finished" =>
            tstate[affinity[ev.w]] = "deleteLater" /\ wstate[ev.w] = "deleted")
    /\ [][\A t \in Ids : (tstate'[t] = "deleted" /\ tstate[t] # "deleted")
                            => tstate[t] = "deleteLater"]_vars
    /\ \A w \in Ids : (wstate[w] = "finishing") ~> C8_Released(w)

C8_Witness ==
    /\ accepted = 2
    /\ tstate[1] = "deleted" /\ tstate[2] = "deleted"
    /\ wstate[1] = "deleted" /\ wstate[2] = "deleted"

\* The message each check reports, by the claim.
C9_Message ==
    CASE ev.op = "handle_result" -> MsgImportFailed
      [] ev.op = "merge_point_clouds" ->
            IF ev.flag THEN MsgMergeImportFailed ELSE MsgNoPreloaded
      [] ev.op = "evaluate_registration" -> MsgNoClouds
      [] ev.op = "rasterize_gaussians" ->
            IF is_point_cloud_gaussian(pc_originalFirst)
                  /\ is_point_cloud_gaussian(pc_originalSecond)
            THEN MsgOrtho ELSE MsgWrongType
      [] ev.op = "create_error_list_dialog" -> MsgErrorList
      [] OTHER -> ""

\* C9: every error the window reports is shown in a modal dialog whose text is
\* the fixed string of the check that failed, whatever the request's inputs.
C9_ErrorsModalAndStatic ==
    (ev.dialog.kind = "QErrorMessage" \/ ev.op = "create_error_list_dialog") =>
        /\ ev.dialog.modal
        /\ ev.dialog.msg = C9_Message

C9_Witness ==
    /\ ev.op = "merge_point_clouds"
    /\ ev.flag
    /\ ev.dialog.kind = "QErrorMessage"
    /\ ev.dialog.msg = MsgMergeImportFailed
    /\ Missing(ev.c1) /\ Missing(ev.c2)

\* C10: at most one worker thread has not finished.
C10_AtMostOneThread == Cardinality({t \in Ids : Alive(t)}) <= 1

\* A request's worker has reported its result or has ended.
Completed(w) == wstate[w] \in {"reported", "finishing", "ended", "deleted"}

\* C11: a cancel action on the progress dialog runs cancel_evaluation on no
\* worker but that of the request in flight, the newest accepted one, and so on
\* no worker of an earlier evaluation that has completed; a progress update is
\* applied to the dialog by no worker but the evaluator of the request in flight.
C11_OnlyRequestInFlightReached ==
    /\ ev.op = "canceled" =>
          /\ ev.cancelled \subseteq {accepted}
          /\ \A w \in ev.cancelled : ~(w < accepted /\ Completed(w))
    /\ ev.op = "setValue" => (ev.w = accepted /\ kind[ev.w] = "evaluator")

\* C12: the progress dialog is open only while a request is in flight: when
\* no worker thread is alive, whichever signals the workers emitted before
\* signal_finished, the progress dialog is closed.
C12_DialogOpenOnlyInFlight ==
    (\A t \in Ids : ~Alive(t)) => ~progress_dialog.visible

\* C13: the handler of a registration result closes the progress dialog and
\* shows the success message, changing neither the stored data nor the
\* transformation; when the message is dismissed it stores the result's data if
\* and only if the data is not None, then sets the transformation picker to the
\* result's transformation, in this order.
C13_RegistrationResultApplied ==
    [][ /\ ev'.op = "handle_registration_result" =>
              /\ ~progress_dialog'.visible
              /\ ev'.log = <<"progress_dialog.close", "message_dialog.exec">>
              /\ Len(msg_stack') = Len(msg_stack) + 1
              /\ msg_stack'[Len(msg_stack')].w = ev'.w
              /\ UNCHANGED <<local_registration_data, transformation_matrix>>
        /\ ev'.op = "handle_registration_result.end" =>
              LET f == msg_stack[Len(msg_stack)]
              IN  /\ f.box = "registration" /\ f.w = ev'.w
                  /\ Len(msg_stack') = Len(msg_stack) - 1
                  /\ transformation_matrix' = f.trans
                  /\ f.data # 0 =>
                        /\ local_registration_data' = f.data
                        /\ ev'.log = <<"local_registration_data", "set_transformation">>
                  /\ f.data = 0 =>
                        /\ local_registration_data' = local_registration_data
                        /\ ev'.log = <<"set_transformation">> ]_vars

\* A global registration result was applied after a local one: the
\* transformation is the global result's, the data still the local one's.
C13_Witness ==
    /\ ev.op = "handle_registration_result.end"
    /\ ~ev.flag
    /\ ev.w = 2
    /\ transformation_matrix = 2
    /\ local_registration_data = 1

\* C15: when a multi-scale registration worker emits signal_error_occurred the
\* handler closes the progress dialog and shows the dialog that lists the errors;
\* neither the handler nor the dismissal of its dialog changes the
\* transformation picker's matrix or local_registration_data.
C15_ErrorListLeavesResults ==
    [][ /\ ev'.op = "create_error_list_dialog" =>
              /\ kind[ev'.w] = "multi_scale"
              /\ wstate[ev'.w] = "working"
              /\ ~progress_dialog'.visible
              /\ ev'.dialog.title = "Error occured" /\ ev'.dialog.msg = MsgErrorList
              /\ ev'.log = <<"progress_dialog.close", "message_dialog.exec">>
              /\ Len(msg_stack') = Len(msg_stack) + 1
              /\ msg_stack'[Len(msg_stack')].box = "error_list"
              /\ UNCHANGED <<local_registration_data, transformation_matrix>>
        /\ (ev'.op = "message_dialog.end" /\ msg_stack[Len(msg_stack)].box = "error_list") =>
              UNCHANGED <<local_registration_data, transformation_matrix>> ]_vars

\* The error of a multi-scale registration that followed a local registration.
C15_Witness ==
    /\ ev.op = "create_error_list_dialog"
    /\ ev.w = 2
    /\ ~progress_dialog.visible
    /\ local_registration_data = 1
    /\ transformation_matrix = 1

\* C14: whenever the window takes an evaluation request, the data the request
\* gives its worker is the data of the newest registration result reported with
\* data, None when there was none, whatever was imported since.
C14_EvaluationGetsLatestLocalData ==
    (UIFree /\ ~EvaluationBlocked) => EvaluatorData = last_local_result

====
